---------------------------- MODULE Spec2Model ----------------------------
(***************************************************************************)
(* A model of scafall, a tool that materializes a project from a template  *)
(* source.  Two engines of the repository are modelled:                    *)
(*                                                                         *)
(*   - the filesystem-abstraction engine: Scaffold, ScaffoldCollection,    *)
(*     collection and create of src/pkg/scafall.go:1-197, which call the   *)
(*     prompt, override, apply and copy functions of                       *)
(*     src/pkg/scafall.go:199-448 and transform of :491-502;               *)
(*   - the directory engine: Scaffold of                                   *)
(*     src/pkg/internal/collection_test.go:322-337, Create of              *)
(*     src/pkg/internal/create.go and Apply, Transform,                    *)
(*     findTransformableFiles and ReadOverrides of src/unnamed/part_002.   *)
(*                                                                         *)
(* Strings are TLA+ strings; paths are rooted slash-separated strings.     *)
(***************************************************************************)
EXTENDS Integers, Sequences, FiniteSets, TLC

VARIABLES
    source,         \* the template source at the url: entries in listing order
    Overrides,      \* Scafall.Overrides, the caller's override map
    DefaultValues,  \* Scafall.DefaultValues, the caller's default/variable map
    Reserved,       \* the reserved names the caller passed to New
    target,         \* the output target directory: [exists, files]
    calls,          \* scaffold invocations started so far
    pc,             \* where the current invocation stands
    engine,         \* "fs" or "dir": the engine of the current invocation
    inFs,           \* the tree the invocation reads (re-rooted / working copy)
    rooted,         \* whether the directory inFs is rooted at exists
    prompts,        \* the Prompts being resolved
    idx,            \* position of the askPrompts loop in prompts
    vars,           \* the map askPrompts writes into
    overides,       \* the override map handed to askPrompts
    asked,          \* the asker's invocations, in order: [Name, err, result]
    cont,           \* who called askPrompts: "collection", "create", "Create"
    detected,       \* <<is a collection, choices>> as detection reported it
    choices,        \* Choices of the synthetic collection-selection prompt
    choice,         \* the chosen sub-template ("" when none)
    values,         \* the bindings handed to materialization
    result,         \* "none" while running or before; then "ok" or "err"
    before,         \* the output target as it was when the invocation began
    given,          \* the caller's maps as they were when the invocation began
    phases          \* the phases the invocation has entered, in order

vars_all == <<source, Overrides, DefaultValues, Reserved, target, calls, pc,
              engine, inFs, rooted, prompts, idx, vars, overides, asked, cont,
              detected, choices, choice, values, result, before, given,
              phases>>

-----------------------------------------------------------------------------
(* Bounds of the model.                                                     *)

MaxCalls == 2

-----------------------------------------------------------------------------
(* Strings and paths.                                                       *)

\* strings.HasPrefix
HasPrefix(s, p) == Len(p) <= Len(s) /\ SubSeq(s, 1, Len(p)) = p

\* strings.Index from position `from` (1-based); 0 when absent
RECURSIVE Index(_, _, _)
Index(s, sub, from) ==
    IF from + Len(sub) - 1 > Len(s) THEN 0
    ELSE IF SubSeq(s, from, from + Len(sub) - 1) = sub THEN from
    ELSE Index(s, sub, from + 1)

\* position of the last "/" of a path; 0 when there is none
RECURSIVE LastSlash(_, _)
LastSlash(p, i) ==
    IF i = 0 THEN 0
    ELSE IF SubSeq(p, i, i) = "/" THEN i
    ELSE LastSlash(p, i - 1)

\* fs.FileInfo.Name / os.DirEntry.Name: the last element of a path
Base(p) == SubSeq(p, LastSlash(p, Len(p)) + 1, Len(p))

\* filepath.Dir of a rooted path ("/" for a top-level entry)
DirOf(p) ==
    LET i == LastSlash(p, Len(p)) IN IF i <= 1 THEN "/" ELSE SubSeq(p, 1, i - 1)

\* a top-level entry of a tree: "/name"
IsTopLevel(p) == Len(p) > 1 /\ LastSlash(p, Len(p)) = 1

\* the first element of a rooted path
FirstSegment(p) ==
    LET j == Index(p, "/", 2) IN
    IF j = 0 THEN SubSeq(p, 2, Len(p)) ELSE SubSeq(p, 2, j - 1)

\* the proper ancestors of a rooted path, the root excluded
RECURSIVE Ancestors(_)
Ancestors(p) ==
    LET d == DirOf(p) IN IF d = "/" THEN {} ELSE {d} \cup Ancestors(d)

\* the elements of a sequence
Range(seq) == {seq[i] : i \in 1..Len(seq)}

\* a Go map with no key
EmptyMap == [n \in {} |-> ""]

Has(m, k) == k \in DOMAIN m


-----------------------------------------------------------------------------
(* The template engine: transform, src/pkg/scafall.go:491-502.  The text is *)
(* parsed for {{.name}} actions; a value is written HTML-escaped, as        *)
(* html/template does in text context.                                      *)

\* what html/template prints for a key the map does not have
NoValue == "<no value>"

EscapeChar(c) ==
    CASE c = "&" -> "&amp;"
      [] c = "<" -> "&lt;"
      [] c = ">" -> "&gt;"
      [] c = "\"" -> "&#34;"
      [] c = "'" -> "&#39;"
      [] c = "+" -> "&#43;"
      [] OTHER -> c

RECURSIVE HTMLEscape(_)
HTMLEscape(s) ==
    IF s = "" THEN ""
    ELSE EscapeChar(SubSeq(s, 1, 1)) \o HTMLEscape(SubSeq(s, 2, Len(s)))

\* template.Parse: every "{{" is closed by "}}" and holds a field ".name"
RECURSIVE ParseOk(_)
ParseOk(data) ==
    LET open == Index(data, "{{", 1) IN
    IF open = 0 THEN TRUE
    ELSE LET close == Index(data, "}}", open + 2) IN
         /\ close # 0
         /\ close > open + 3
         /\ SubSeq(data, open + 2, open + 2) = "."
         /\ ParseOk(SubSeq(data, close + 2, Len(data)))

\* tpl.Execute on a text that parses
RECURSIVE Execute(_, _)
Execute(env, data) ==
    LET open == Index(data, "{{", 1) IN
    IF open = 0 THEN data
    ELSE LET close == Index(data, "}}", open + 2)
             name  == SubSeq(data, open + 3, close - 1)
             value == IF Has(env, name) THEN env[name] ELSE NoValue
         IN SubSeq(data, 1, open - 1) \o HTMLEscape(value)
                \o Execute(env, SubSeq(data, close + 2, Len(data)))

\* transform(env, data): [err, out]
transform(env, data) ==
    IF ~ParseOk(data) THEN [err |-> TRUE, out |-> ""]
    ELSE [err |-> FALSE, out |-> Execute(env, data)]

-----------------------------------------------------------------------------
(* Maps.                                                                    *)

\* mergo.Merge(&dst, src) on maps: a key of src is set in dst when dst lacks
\* it or holds the empty value; a non-empty value of dst is kept
Merge(dst, src) ==
    [k \in DOMAIN dst \cup DOMAIN src |->
        IF Has(dst, k) /\ (dst[k] # "" \/ ~Has(src, k)) THEN dst[k] ELSE src[k]]

\* IDictionary.Merge: keys of src that dst lacks are added, dst's are kept
DictMerge(dst, src) ==
    [k \in DOMAIN dst \cup DOMAIN src |-> IF Has(dst, k) THEN dst[k] ELSE src[k]]

\* m[k] = v on a Go map
Set(m, k, v) == [x \in DOMAIN m \cup {k} |-> IF x = k THEN v ELSE m[x]]

-----------------------------------------------------------------------------
(* Program constants.                                                       *)

PromptFile == "prompts.toml"
OverrideFile == ".override.toml"

\* the reserved names readPromptFile and readOverrides check against
ReservedPromptVariables == {}

\* the path prefixes apply skips
IgnoredNames == <<"/" \o PromptFile, "/" \o OverrideFile, "/.git">>

\* the file names and directory names findTransformableFiles skips
DirIgnoredNames == <<PromptFile, OverrideFile>>
IgnoredDirectories == <<".git", "node_modules">>

\* the name of the synthetic collection-selection prompt
varName == "__ScaffoldUrl"

-----------------------------------------------------------------------------
(* The inputs: prompts, trees, caller maps.                                 *)

\* a Prompt of a prompt file
NewPrompt(name, label, required, default, chs) ==
    [Name |-> name, Prompt |-> label, Required |-> required,
     Default |-> default, Choices |-> chs]

TestPrompt == NewPrompt("test", "Project name", FALSE, "d", <<>>)
DuckPrompt == NewPrompt("duck", "What does the duck say", TRUE, "", <<>>)

\* entries of a tree: a directory, a file, and the two configuration files
\* with what the decoder makes of them
DirEntry(path) ==
    [path |-> path, dir |-> TRUE, mode |-> 493, body |-> "", text |-> FALSE,
     wellformed |-> TRUE, prompts |-> <<>>, kv |-> EmptyMap]

FileEntry(path, mode, body, text) ==
    [path |-> path, dir |-> FALSE, mode |-> mode, body |-> body, text |-> text,
     wellformed |-> TRUE, prompts |-> <<>>, kv |-> EmptyMap]

PromptsEntry(path, ps) ==
    [path |-> path, dir |-> FALSE, mode |-> 420, body |-> "[[prompt]]",
     text |-> TRUE, wellformed |-> TRUE, prompts |-> ps, kv |-> EmptyMap]

OverridesEntry(path, kv) ==
    [path |-> path, dir |-> FALSE, mode |-> 420, body |-> "k = v",
     text |-> TRUE, wellformed |-> TRUE, prompts |-> <<>>, kv |-> kv]

\* testdata/empty: no prompt file
TplPlain ==
    << FileEntry("/.gitignore", 420, "bin", TRUE),
       FileEntry("/template.go", 420, "package main", TRUE) >>

\* testdata/str_prompts with version-control metadata beside it
TplPrompts ==
    << DirEntry("/.git"),
       FileEntry("/.git/config", 420, "[core]", TRUE),
       PromptsEntry("/prompts.toml", <<TestPrompt>>),
       FileEntry("/template.go", 420, "package {{.test}}", TRUE) >>

\* testdata/template_folder: a placeholder directory holding a placeholder file
TplFolder ==
    << PromptsEntry("/prompts.toml", <<DuckPrompt, TestPrompt>>),
       DirEntry("/{{.duck}}"),
       FileEntry("/{{.duck}}/{{.duck}}.go", 493, "say {{.duck}}", TRUE),
       FileEntry("/logo.png", 420, "PNG", FALSE) >>

\* testdata/collection, with a third directory that holds no prompt file
TplCollection ==
    << DirEntry("/option1"),
       PromptsEntry("/option1/prompts.toml", <<TestPrompt>>),
       FileEntry("/option1/template.go", 420, "package {{.test}}", TRUE),
       DirEntry("/option2"),
       PromptsEntry("/option2/prompts.toml", <<TestPrompt>>),
       FileEntry("/option2/other.go", 420, "two", TRUE),
       FileEntry("/option2/template.go", 420, "second {{.test}}", TRUE),
       DirEntry("/option3"),
       FileEntry("/option3/notes.txt", 420, "three", TRUE) >>

\* a single template that also has a sub-template-looking directory, whose
\* file refers to a variable the top-level prompt file does not declare,
\* and a file whose whole content is one placeholder
TplMixed ==
    << FileEntry("/VERSION", 420, "{{.test}}", TRUE),
       DirEntry("/option1"),
       PromptsEntry("/option1/prompts.toml", <<DuckPrompt>>),
       FileEntry("/option1/inner.go", 420, "inner {{.duck}}", TRUE),
       PromptsEntry("/prompts.toml", <<TestPrompt>>),
       FileEntry("/template.go", 420, "package {{.test}}", TRUE) >>

\* directories only: no prompt file anywhere; a text and a binary file
TplDirs ==
    << DirEntry("/docs"),
       FileEntry("/docs/guide.md", 420, "guide", TRUE),
       FileEntry("/docs/logo.png", 420, "PNG", FALSE) >>

\* a template with a file whose name opens a placeholder it never closes
TplBroken ==
    << PromptsEntry("/prompts.toml", <<TestPrompt>>),
       FileEntry("/{{.test", 420, "draft", TRUE),
       FileEntry("/template.go", 420, "package {{.test}}", TRUE) >>

BaseTrees ==
    {TplPlain, TplPrompts, TplFolder, TplCollection, TplMixed, TplDirs, TplBroken}

\* what the override file at the root of the source may hold; the first
\* means there is no override file
OverrideFiles ==
    { <<>>,
      << OverridesEntry("/" \o OverrideFile, "test" :> "o") >>,
      << OverridesEntry("/" \o OverrideFile, varName :> "option1") >>,
      << OverridesEntry("/" \o OverrideFile, varName :> ".git") >>,
      << OverridesEntry("/" \o OverrideFile, varName :> "../up") >> }

SourceTrees == {o \o t : o \in OverrideFiles, t \in BaseTrees}

\* the override maps a caller may pass
OverridesInputs ==
    { EmptyMap, "test" :> "c", "test" :> "", ("test" :> "c") @@ ("duck" :> "quack") }

\* the default/variable maps a caller may pass
DefaultValuesInputs == { EmptyMap, "test" :> "v" }

\* the reserved-name sets a caller may pass
ReservedInputs == { {}, {"test"} }

\* what a user may type at a free-text prompt instead of accepting its default
Typed == "a"

\* the output target before the first call: absent, or a directory that
\* holds somebody's file
NoTarget == [exists |-> FALSE, files |-> EmptyMap]
OldTarget ==
    [exists |-> TRUE,
     files |-> "/keep.txt" :>
        [dir |-> FALSE, body |-> "mine", mode |-> 420, src |-> "(not ours)"]]

-----------------------------------------------------------------------------
(* The filesystem seen through billy.Filesystem and through package os.     *)

\* bfs.Stat(name) succeeds
Stat(fs, name) == \E i \in 1..Len(fs) : fs[i].path = "/" \o name

\* the entry readFile opens
Lookup(fs, name) == fs[CHOOSE i \in 1..Len(fs) : fs[i].path = "/" \o name]

\* bfs.ReadDir("/"): the immediate children, in listing order
ReadDir(fs) == SelectSeq(fs, LAMBDA e : IsTopLevel(e.path))

\* a re-rooting that narrows nothing
ChrootWholeTree(fs, dir) == fs

\* bfs.Chroot(dir) / path.Join(inFs, dir): the tree re-rooted at a directory
Chroot(fs, dir) ==
    LET under == SelectSeq(fs, LAMBDA e : HasPrefix(e.path, "/" \o dir \o "/"))
    IN [i \in 1..Len(under) |->
          [under[i] EXCEPT !.path = SubSeq(@, Len(dir) + 2, Len(@))]]

\* Chroot refuses a path that leaves the tree
CrossesBoundary(dir) == HasPrefix(dir, "../")

\* name is a directory of the tree
IsDir(fs, name) == \E i \in 1..Len(fs) : fs[i].path = "/" \o name /\ fs[i].dir

\* the names of a sequence of entries
RECURSIVE Names(_)
Names(es) == IF es = <<>> THEN <<>> ELSE <<Base(Head(es).path)>> \o Names(Tail(es))

\* contains(strings, element)
contains(strings, element) == \E i \in 1..Len(strings) : strings[i] = element

-----------------------------------------------------------------------------
(* Collection detection.                                                    *)

\* a detection that looks at the subdirectories only, whatever the top of
\* the tree holds
isCollectionNoTopLevelCheck(bfs) ==
    \E i \in 1..Len(ReadDir(bfs)) :
        /\ ReadDir(bfs)[i].dir
        /\ Stat(bfs, Base(ReadDir(bfs)[i].path) \o "/" \o PromptFile)

\* isCollection(bfs)
isCollection(bfs) ==
    IF Stat(bfs, PromptFile) THEN FALSE
    ELSE \E i \in 1..Len(ReadDir(bfs)) :
            /\ ReadDir(bfs)[i].dir
            /\ Stat(bfs, Base(ReadDir(bfs)[i].path) \o "/" \o PromptFile)

\* internal.IsCollection(dir): the verdict of isCollection with the names
\* of the immediate subdirectories that hold a prompt file
IsCollection(dir) ==
    IF isCollection(dir)
    THEN <<TRUE, Names(SelectSeq(ReadDir(dir),
                LAMBDA e : e.dir /\ Stat(dir, Base(e.path) \o "/" \o PromptFile)))>>
    ELSE <<FALSE, <<>> >>

\* the choices collection() offers: every immediate directory but .git
collectionChoices(fs) ==
    Names(SelectSeq(ReadDir(fs), LAMBDA e : e.dir /\ Base(e.path) # ".git"))

-----------------------------------------------------------------------------
(* Reading the configuration files.                                         *)

\* readPromptFile(bfs, name): [err, prompts]
readPromptFile(bfs, name) ==
    IF ~Stat(bfs, name) \/ ~Lookup(bfs, name).wellformed
    THEN [err |-> TRUE, prompts |-> <<>>]
    ELSE LET ps == Lookup(bfs, name).prompts IN
         IF \E i \in 1..Len(ps) : ps[i].Name \in ReservedPromptVariables
         THEN [err |-> TRUE, prompts |-> <<>>]
         ELSE [err |-> FALSE, prompts |-> ps]

\* readOverrides(bfs, name): [err, overrides]
readOverrides(bfs, name) ==
    IF ~Stat(bfs, name) \/ ~Lookup(bfs, name).wellformed
    THEN [err |-> TRUE, overrides |-> EmptyMap]
    ELSE LET kv == Lookup(bfs, name).kv IN
         IF \E k \in DOMAIN kv : k \in ReservedPromptVariables
         THEN [err |-> TRUE, overrides |-> EmptyMap]
         ELSE [err |-> FALSE, overrides |-> kv]

\* ReadOverrides(overrideFile) of the directory engine: [err, overrides]
ReadOverrides(dir, name) ==
    IF ~Stat(dir, name) THEN [err |-> FALSE, overrides |-> EmptyMap]
    ELSE IF ~Lookup(dir, name).wellformed
    THEN [err |-> TRUE, overrides |-> EmptyMap]
    ELSE [err |-> FALSE, overrides |-> Lookup(dir, name).kv]

-----------------------------------------------------------------------------
(* Output trees: a map from rooted path to [dir, body, mode, src], where    *)
(* src is the path of the source entry the output entry was made from.      *)

\* MkdirAll(path): the directory and its missing ancestors
MkdirAll(files, path, mode, src) ==
    LET new == {d \in ({path} \cup Ancestors(path)) \ {"/"} : ~Has(files, d)} IN
    [q \in DOMAIN files \cup new |->
        IF q \in new THEN [dir |-> TRUE, body |-> "", mode |-> mode, src |-> src]
        ELSE files[q]]

\* OpenFile(path, O_CREATE|O_RDWR, mode) then Write(data): a new file gets
\* the mode; an existing file keeps its mode and its bytes past the data
OpenWrite(files, path, data, mode, src) ==
    LET parents == MkdirAll(files, DirOf(path), 493, src) IN
    IF Has(files, path) /\ ~files[path].dir
    THEN [files EXCEPT ![path] =
            [dir |-> FALSE, mode |-> @.mode, src |-> src,
             body |-> data \o SubSeq(@.body, Len(data) + 1, Len(@.body))]]
    ELSE Set(parents, path, [dir |-> FALSE, body |-> data, mode |-> mode, src |-> src])

-----------------------------------------------------------------------------
(* Materialization in the filesystem-abstraction engine.                    *)

\* a prefix test that never matches
isPrefixOfNothing(path, prefixes) == FALSE

\* isPrefixOf(path, prefixes)
isPrefixOf(path, prefixes) ==
    \E i \in 1..Len(prefixes) : HasPrefix(path, prefixes[i])

\* the callback of apply on one entry; acc is [files, err]
applyEntry(acc, e, env) ==
    IF acc.err \/ isPrefixOf(e.path, IgnoredNames) THEN acc
    ELSE LET t == transform(env, e.path) IN
         IF t.err THEN acc
         ELSE IF e.dir
         THEN [acc EXCEPT !.files = MkdirAll(@, t.out, 493, e.path)]
         ELSE LET transformed == transform(env, e.body) IN
              IF transformed.err THEN [acc EXCEPT !.err = TRUE]
              ELSE [acc EXCEPT !.files =
                        OpenWrite(@, t.out, transformed.out, e.mode, e.path)]

RECURSIVE applyWalk(_, _, _, _)
applyWalk(bfs, env, i, acc) ==
    IF i > Len(bfs) THEN acc
    ELSE applyWalk(bfs, env, i + 1, applyEntry(acc, bfs[i], env))

\* apply(bfs, vars): [files, err], files being the in-memory transformed tree
apply(bfs, env) == applyWalk(bfs, env, 1, [files |-> EmptyMap, err |-> FALSE])

\* copy(inFs, outFs): every entry of the transformed tree written under the
\* output directory
copy(transformed, out) ==
    [q \in DOMAIN out \cup DOMAIN transformed |->
        IF Has(transformed, q) THEN transformed[q] ELSE out[q]]

-----------------------------------------------------------------------------
(* Materialization in the directory engine.                                 *)

\* a directory findTransformableFiles does not descend into
SkippedDir(path) == contains(IgnoredDirectories, Base(path))

\* findTransformableFiles(dir): the SourceFiles, in walk order
findTransformableFiles(dir) ==
    LET skipped == {dir[i].path : i \in {j \in 1..Len(dir) :
                        dir[j].dir /\ SkippedDir(dir[j].path)}}
        kept == SelectSeq(dir, LAMBDA e :
                    /\ ~e.dir
                    /\ Ancestors(e.path) \cap skipped = {}
                    /\ ~contains(DirIgnoredNames, Base(e.path))
                    /\ ~HasPrefix(e.path, "/README"))
    IN [i \in 1..Len(kept) |->
          [FilePath |-> kept[i].path,
           FileContent |-> IF kept[i].text THEN kept[i].body ELSE "",
           FileMode |-> 0]]

\* Replace(vars, file): the SourceFile with its path and content substituted
Replace(env, file) ==
    LET path == transform(env, file.FilePath)
        content == transform(env, file.FileContent)
    IN [err |-> path.err \/ content.err,
        file |-> [FilePath |-> path.out, FileContent |-> content.out,
                  FileMode |-> file.FileMode]]

\* the bitwise or of a permission value with 0600
Or0600(mode) == mode + (IF (mode \div 256) % 2 = 0 THEN 256 ELSE 0)
                     + (IF (mode \div 128) % 2 = 0 THEN 128 ELSE 0)

\* SourceFile.Transform(inputDir, outputDir, vars); st is
\* [input, files, exists, err]: the input directory, the files under the
\* output directory, whether the output directory exists, and the error
Transform(st, s, env) ==
    IF st.err THEN st
    ELSE LET r == Replace(env, s)
             outputPath == r.file.FilePath
             made == MkdirAll(st.files, DirOf(outputPath), 484, s.FilePath)
             name == SubSeq(s.FilePath, 2, Len(s.FilePath))
         IN
         IF r.err THEN [st EXCEPT !.err = TRUE]
         ELSE IF r.file.FileContent = ""
         THEN \* os.Rename(inputPath, outputPath)
              IF ~Stat(st.input, name) \/ (Has(made, outputPath) /\ made[outputPath].dir)
              THEN [st EXCEPT !.files = made, !.exists = TRUE, !.err = TRUE]
              ELSE [input |-> SelectSeq(st.input, LAMBDA e : e.path # s.FilePath),
                    files |-> Set(made, outputPath,
                                  [dir |-> FALSE, body |-> Lookup(st.input, name).body,
                                   mode |-> Lookup(st.input, name).mode,
                                   src |-> s.FilePath]),
                    exists |-> TRUE,
                    err |-> FALSE]
         ELSE \* os.WriteFile(outputPath, content, FileMode|0600), error dropped
              IF Has(made, outputPath) /\ made[outputPath].dir
              THEN [st EXCEPT !.files = made, !.exists = TRUE]
              ELSE [st EXCEPT !.exists = TRUE, !.files =
                      Set(made, outputPath,
                          [dir |-> FALSE, body |-> r.file.FileContent,
                           mode |-> IF Has(made, outputPath)
                                    THEN made[outputPath].mode
                                    ELSE Or0600(r.file.FileMode),
                           src |-> s.FilePath])]

RECURSIVE ApplyLoop(_, _, _, _)
ApplyLoop(files, env, i, st) ==
    IF i > Len(files) THEN st
    ELSE ApplyLoop(files, env, i + 1, Transform(st, files[i], env))

\* Apply(inputDir, vars, outputDir): [input, files, exists, err]
Apply(inputDir, env, out) ==
    ApplyLoop(findTransformableFiles(inputDir), env, 1,
              [input |-> inputDir, files |-> out.files, exists |-> out.exists,
               err |-> FALSE])

-----------------------------------------------------------------------------
(* The state machine.                                                       *)

Init ==
    /\ source \in SourceTrees
    /\ Overrides \in OverridesInputs
    /\ DefaultValues \in DefaultValuesInputs
    /\ Reserved \in ReservedInputs
    /\ target \in {NoTarget, OldTarget}
    /\ calls = 0
    /\ pc = "idle"
    /\ engine = "none"
    /\ inFs = <<>>
    /\ rooted = TRUE
    /\ prompts = <<>>
    /\ idx = 1
    /\ vars = EmptyMap
    /\ overides = EmptyMap
    /\ asked = <<>>
    /\ cont = "none"
    /\ detected = <<FALSE, <<>> >>
    /\ choices = <<>>
    /\ choice = ""
    /\ values = EmptyMap
    /\ result = "none"
    /\ before = NoTarget
    /\ given = [Overrides |-> Overrides, DefaultValues |-> DefaultValues]
    /\ phases = <<>>

\* the caller's configuration, which no step of an invocation replaces
\* except through the maps it shares with the caller
Caller == <<source, Reserved>>

\* an invocation begins: its locals are fresh
Begin(eng, fs, next) ==
    /\ pc = "idle"
    /\ calls < MaxCalls
    /\ calls' = calls + 1
    /\ engine' = eng
    /\ inFs' = fs
    /\ rooted' = TRUE
    /\ pc' = next
    /\ prompts' = <<>>
    /\ idx' = 1
    /\ vars' = EmptyMap
    /\ overides' = EmptyMap
    /\ asked' = <<>>
    /\ cont' = "none"
    /\ choices' = <<>>
    /\ choice' = ""
    /\ values' = EmptyMap
    /\ result' = "none"
    /\ before' = target
    /\ given' = [Overrides |-> Overrides, DefaultValues |-> DefaultValues]
    /\ UNCHANGED <<Caller, Overrides, DefaultValues, target>>

\* the invocation returns
Return(res) == pc' = "idle" /\ result' = res

\* Scafall.Scaffold(url, outputDir), src/pkg/scafall.go:142
Scaffold ==
    /\ Begin("fs", source, IF isCollection(source) THEN "collection" ELSE "create")
    /\ detected' = <<isCollection(source), <<>> >>
    /\ phases' = <<"Fetching", "DetectingCollection">>

\* Scafall.ScaffoldCollection(url, prompt, outputDir), src/pkg/scafall.go:131
ScaffoldCollection ==
    /\ Begin("fs", source, "collection")
    /\ phases' = <<"Fetching">>
    /\ UNCHANGED detected

\* collection(), up to its call of AskPrompts
collection ==
    /\ pc = "collection"
    /\ choices' = collectionChoices(inFs)
    /\ LET o == readOverrides(inFs, OverrideFile) IN
       IF o.err
       THEN /\ Return("err")
            /\ UNCHANGED <<Overrides, prompts, idx, vars, overides, cont>>
       ELSE /\ Overrides' = Merge(Overrides, o.overrides)
            /\ prompts' = <<NewPrompt(varName, "Choose a project template", TRUE,
                                      "", collectionChoices(inFs))>>
            /\ idx' = 1
            /\ vars' = EmptyMap
            /\ overides' = o.overrides
            /\ cont' = "collection"
            /\ pc' = "ask"
            /\ UNCHANGED result
    /\ phases' = Append(phases, "SelectingOption")
    /\ UNCHANGED <<Caller, DefaultValues, target, calls, engine, inFs,
                   rooted, asked, detected, choice, values, before, given>>

\* what the interactive asker can return for a prompt, an error apart:
\* a choice of a Select, or the text of a Prompt, which is the default as
\* it stands, a typed text, or nothing at all (never the empty text when
\* the prompt is required)
Answers(p) ==
    IF p.Choices # <<>> THEN Range(p.Choices)
    ELSE {p.Default, Typed, ""} \ (IF p.Required THEN {""} ELSE {})

\* one turn of the loop of askPrompts: an override is recorded, the asker
\* runs, and its answer is recorded unless it failed
askPromptsTurn(p, answer, failed) ==
    LET seeded == IF Has(overides, p.Name)
                  THEN Set(vars, p.Name, overides[p.Name]) ELSE vars
    IN /\ asked' = Append(asked, [Name |-> p.Name, err |-> failed, result |-> answer])
       /\ vars' = IF failed THEN seeded ELSE Set(seeded, p.Name, answer)

\* askPrompts, one prompt at a time
askPrompts ==
    /\ pc = "ask"
    /\ idx <= Len(prompts)
    /\ \/ \E a \in Answers(prompts[idx]) : askPromptsTurn(prompts[idx], a, FALSE)
       \/ askPromptsTurn(prompts[idx], "", TRUE)
    /\ idx' = idx + 1
    \* create hands the caller's DefaultValues map itself to be written into
    /\ DefaultValues' = IF cont = "create" THEN vars' ELSE DefaultValues
    /\ UNCHANGED phases
    /\ UNCHANGED <<Caller, Overrides, target, calls, pc, engine, inFs,
                   rooted, prompts, overides, cont, detected, choices,
                   choice, values, result, before, given>>

\* collection(), from the return of AskPrompts to its call of create
collectionChosen ==
    /\ pc = "ask" /\ idx > Len(prompts) /\ cont = "collection"
    /\ values' = vars
    /\ IF ~Has(vars, varName)
       THEN Return("err") /\ UNCHANGED <<choice, inFs, rooted>>
       ELSE IF CrossesBoundary(vars[varName])
       THEN \* Chroot fails and collection returns nil
            /\ choice' = vars[varName]
            /\ Return("ok")
            /\ UNCHANGED <<inFs, rooted>>
       ELSE /\ choice' = vars[varName]
            /\ inFs' = Chroot(inFs, vars[varName])
            /\ rooted' = IsDir(inFs, vars[varName])
            /\ pc' = "create"
            /\ UNCHANGED result
    /\ UNCHANGED phases
    /\ UNCHANGED <<Caller, Overrides, DefaultValues, target, calls, engine,
                   prompts, idx, vars, overides, asked, cont, detected,
                   choices, before, given>>

\* create(), up to its call of AskPrompts
create ==
    /\ pc = "create"
    /\ IF target.exists
       THEN /\ Return("err")
            /\ UNCHANGED <<Overrides, prompts, idx, vars, overides, cont,
                           values>>
       ELSE IF ~Stat(inFs, PromptFile)
       THEN /\ pc' = "apply"
            /\ values' = EmptyMap
            /\ UNCHANGED <<Overrides, prompts, idx, vars, overides, cont,
                           result>>
       ELSE LET p == readPromptFile(inFs, PromptFile)
                o == IF Stat(inFs, OverrideFile)
                     THEN readOverrides(inFs, OverrideFile)
                     ELSE [err |-> FALSE, overrides |-> EmptyMap]
            IN IF p.err \/ o.err
               THEN /\ Return("err")
                    /\ UNCHANGED <<Overrides, prompts, idx, vars, overides,
                                   cont, values>>
               ELSE /\ Overrides' = Merge(Overrides, o.overrides)
                    /\ prompts' = p.prompts
                    /\ idx' = 1
                    /\ vars' = DefaultValues
                    /\ overides' = Merge(Overrides, o.overrides)
                    /\ cont' = "create"
                    /\ pc' = "ask"
                    /\ UNCHANGED <<values, result>>
    /\ phases' = IF target.exists THEN phases
                  ELSE Append(phases, "ResolvingPrompts")
    /\ UNCHANGED <<Caller, DefaultValues, target, calls, engine, inFs,
                   rooted, asked, detected, choices, choice, before, given>>

\* create(), from the return of AskPrompts to its call of Apply
createAsked ==
    /\ pc = "ask" /\ idx > Len(prompts) /\ cont = "create"
    /\ values' = Merge(vars, Overrides)
    /\ pc' = "apply"
    /\ UNCHANGED phases
    /\ UNCHANGED <<Caller, Overrides, DefaultValues, target, calls, engine,
                   inFs, rooted, prompts, idx, vars, overides, asked, cont,
                   detected, choices, choice, result, before, given>>

\* create(), from Apply to its return
createApply ==
    /\ pc = "apply" /\ engine = "fs"
    /\ LET t == apply(inFs, values) IN
       IF ~rooted
       THEN \* Walk meets a root that does not exist: its callback gets an
            \* error and no FileInfo
            /\ \/ Return("err")
               \/ pc' = "crashed" /\ result' = "crash"
            /\ UNCHANGED target
       ELSE IF t.err
       THEN Return("err") /\ UNCHANGED target
       ELSE /\ target' = [exists |-> TRUE, files |-> copy(t.files, target.files)]
            /\ Return("ok")
    /\ phases' = Append(phases, "Materializing")
    /\ UNCHANGED <<Caller, Overrides, DefaultValues, calls, engine, inFs,
                   rooted, prompts, idx, vars, overides, asked, cont,
                   detected, choices, choice, values, before, given>>

-----------------------------------------------------------------------------
(* The directory engine.                                                    *)

\* Scafall.Scaffold(), src/pkg/internal/collection_test.go:322: the source
\* is copied into a working directory, which the invocation then reads
ScaffoldDir ==
    /\ Begin("dir", source, IF IsCollection(source)[1] THEN "question" ELSE "Create")
    /\ detected' = IsCollection(source)
    /\ phases' = <<"Fetching", "DetectingCollection">>

\* internal.AskQuestion("choose a project template", choices, os.Stdin)
AskQuestion ==
    /\ pc = "question"
    /\ \/ \E c \in Range(detected[2]) :
            /\ asked' = Append(asked, [Name |-> varName, err |-> FALSE, result |-> c])
            /\ choice' = c
            /\ inFs' = Chroot(inFs, c)
            /\ rooted' = IsDir(inFs, c)
            /\ pc' = "Create"
            /\ UNCHANGED result
       \/ /\ asked' = Append(asked, [Name |-> varName, err |-> TRUE, result |-> ""])
          /\ Return("err")
          /\ UNCHANGED <<choice, inFs, rooted>>
    /\ choices' = detected[2]
    /\ phases' = Append(phases, "SelectingOption")
    /\ UNCHANGED <<Caller, Overrides, DefaultValues, target, calls, engine,
                   prompts, idx, vars, overides, cont, detected, values,
                   before, given>>

\* internal.Create(inputDir, overrides, targetDir), up to its call of
\* AskPrompts
Create ==
    /\ pc = "Create"
    /\ IF ~Stat(inFs, PromptFile)
       THEN /\ pc' = "apply"
            /\ values' = EmptyMap
            /\ UNCHANGED <<prompts, idx, vars, overides, cont, result>>
       ELSE LET p == readPromptFile(inFs, PromptFile)
                o == ReadOverrides(inFs, OverrideFile)
            IN IF p.err \/ o.err
               THEN /\ Return("err")
                    /\ UNCHANGED <<prompts, idx, vars, overides, cont,
                                   values>>
               ELSE /\ prompts' = p.prompts
                    /\ idx' = 1
                    /\ vars' = EmptyMap
                    /\ overides' = DictMerge(Overrides, o.overrides)
                    /\ cont' = "Create"
                    /\ pc' = "ask"
                    /\ UNCHANGED <<values, result>>
    /\ phases' = Append(phases, "ResolvingPrompts")
    /\ UNCHANGED <<Caller, Overrides, DefaultValues, target, calls, engine,
                   inFs, rooted, asked, detected, choices, choice, before,
                   given>>

\* internal.Create, from the return of AskPrompts to its call of Apply
CreateAsked ==
    /\ pc = "ask" /\ idx > Len(prompts) /\ cont = "Create"
    /\ values' = DictMerge(vars, overides)
    /\ pc' = "apply"
    /\ UNCHANGED phases
    /\ UNCHANGED <<Caller, Overrides, DefaultValues, target, calls, engine,
                   inFs, rooted, prompts, idx, vars, overides, asked, cont,
                   detected, choices, choice, result, before, given>>

\* internal.Create, from Apply to its return
CreateApply ==
    /\ pc = "apply" /\ engine = "dir"
    /\ LET r == Apply(inFs, values, target) IN
       /\ target' = [exists |-> r.exists, files |-> r.files]
       /\ inFs' = r.input
       /\ Return(IF r.err THEN "err" ELSE "ok")
    /\ phases' = Append(phases, "Materializing")
    /\ UNCHANGED <<Caller, Overrides, DefaultValues, calls, engine, rooted,
                   prompts, idx, vars, overides, asked, cont, detected,
                   choices, choice, values, before, given>>

-----------------------------------------------------------------------------

Next ==
    \/ Scaffold
    \/ ScaffoldCollection
    \/ collection
    \/ askPrompts
    \/ collectionChosen
    \/ create
    \/ createAsked
    \/ createApply
    \/ ScaffoldDir
    \/ AskQuestion
    \/ Create
    \/ CreateAsked
    \/ CreateApply

Spec == Init /\ [][Next]_vars_all

-----------------------------------------------------------------------------
(* What the properties below speak of.                                      *)

\* the invocation has returned
Done == pc = "idle" /\ calls > 0

\* the override file of the tree the invocation reads
FileOverrides ==
    IF Stat(inFs, OverrideFile) THEN Lookup(inFs, OverrideFile).kv ELSE EmptyMap

\* the prompts being resolved are those of a prompt file
FromPromptFile == cont \in {"create", "Create"}

\* the asker returned an error at some prompt of this invocation
AskerFailed == \E i \in 1..Len(asked) : asked[i].err

\* the invocation has changed nothing under the output target
TargetUntouched == target = before

-----------------------------------------------------------------------------
(* C1.  Override precedence: when materialization starts, a prompt of the   *)
(* prompt file whose name the caller's override map has is bound to the     *)
(* caller's value; else, if the override file has the name, to the override *)
(* file's value; else to the interactive answer.                            *)
C1_OverridePrecedence ==
    (pc = "apply" /\ FromPromptFile) =>
        \A i \in 1..Len(prompts) :
            LET n == prompts[i].Name IN
            IF Has(given.Overrides, n)
            THEN Has(values, n) /\ values[n] = given.Overrides[n]
            ELSE IF Has(FileOverrides, n)
            THEN Has(values, n) /\ values[n] = FileOverrides[n]
            ELSE \A j \in 1..Len(asked) :
                    (asked[j].Name = n /\ ~asked[j].err) =>
                        Has(values, n) /\ values[n] = asked[j].result

(* C2.  Overrides suppress prompting: the asker is never invoked for a      *)
(* prompt whose name is in the override map handed to prompt resolution     *)
(* (the caller's overrides merged with the override file), and once all     *)
(* prompts are resolved such a name holds the override value.               *)
C2_OverridesSuppressPrompting ==
    /\ pc = "ask" =>
          \A i \in 1..(idx - 1) :
              Has(overides, prompts[i].Name) =>
                  ~\E j \in 1..Len(asked) : asked[j].Name = prompts[i].Name
    /\ (pc = "ask" /\ idx > Len(prompts)) =>
          \A i \in 1..Len(prompts) :
              Has(overides, prompts[i].Name) =>
                  /\ Has(vars, prompts[i].Name)
                  /\ vars[prompts[i].Name] = overides[prompts[i].Name]

(* C3.  An error of the interactive asker is fatal: materialization never   *)
(* starts, nothing is written under the output target, and the scaffold     *)
(* operation returns an error.                                              *)
C3_AskerErrorIsFatal ==
    AskerFailed =>
        /\ pc # "apply"
        /\ TargetUntouched
        /\ Done => result = "err"

\* a name of the caller's reserved set is declared by the prompt file of the
\* tree the invocation reads, or by the override file beside it
ReservedDeclared ==
    /\ Stat(inFs, PromptFile)
    /\ \/ \E i \in 1..Len(Lookup(inFs, PromptFile).prompts) :
             Lookup(inFs, PromptFile).prompts[i].Name \in Reserved
       \/ \E k \in DOMAIN FileOverrides : k \in Reserved

(* C4.  Reserved-name rejection is fail-fast: when the prompt file declares *)
(* a prompt whose name is in the caller's reserved set, or the override     *)
(* file has such a key, the interactive asker is invoked for no prompt, the *)
(* output target is not created or written, and the operation returns an    *)
(* error.                                                                   *)
C4_ReservedNameRejected ==
    (engine # "none" /\ pc \notin {"collection", "question"} /\ ReservedDeclared) =>
        /\ asked = <<>>
        /\ TargetUntouched
        /\ pc \notin {"ask", "apply"}
        /\ Done => result = "err"

(* C5.  No-clobber: when the output target exists as a scaffold operation   *)
(* begins, the operation changes nothing under the target and returns an    *)
(* error.                                                                   *)
C5_NoClobber ==
    before.exists =>
        /\ TargetUntouched
        /\ Done => result = "err"

\* the immediate subdirectories of the source that directly hold a prompt
\* file, and whether the source has a prompt file at its top
Qualifying ==
    {Base(source[i].path) : i \in {j \in 1..Len(source) :
        /\ source[j].dir
        /\ IsTopLevel(source[j].path)
        /\ \E k \in 1..Len(source) :
              source[k].path = source[j].path \o "/" \o PromptFile}}

TopLevelPrompts == \E i \in 1..Len(source) : source[i].path = "/" \o PromptFile

\* where a top-level name stands in the listing of the source
ListingIndex(name) == CHOOSE i \in 1..Len(source) : source[i].path = "/" \o name

(* C6.  IsCollection(source) is (false, []) when the source has a top-level *)
(* prompt file or no immediate subdirectory directly holds one; otherwise   *)
(* it is (true, L), L being exactly the names of the immediate              *)
(* subdirectories that directly hold a prompt file, each once, in listing   *)
(* order.  The verdict Scaffold acts on is the same boolean.                *)
C6_IsCollection ==
    /\ engine = "dir" =>
          IF TopLevelPrompts \/ Qualifying = {}
          THEN detected = <<FALSE, <<>> >>
          ELSE /\ detected[1] = TRUE
               /\ Range(detected[2]) = Qualifying
               /\ Len(detected[2]) = Cardinality(Qualifying)
               /\ \A i, j \in 1..Len(detected[2]) :
                     i < j => ListingIndex(detected[2][i]) < ListingIndex(detected[2][j])
    /\ engine = "fs" =>
          /\ isCollection(source) = (~TopLevelPrompts /\ Qualifying # {})
          \* only a source that is not a collection is created unnarrowed
          /\ (pc = "create" /\ choice = "") => ~isCollection(source)

\* C6 witness: detection has reported the two templates of a collection that
\* also has a directory without a prompt file
C6_Witness ==
    /\ engine = "dir"
    /\ detected = <<TRUE, <<"option1", "option2">> >>
    /\ \E i \in 1..Len(source) : source[i].path = "/option3"

(* C7.  The choices of the synthetic collection-selection prompt are        *)
(* exactly the qualifying sub-template names that collection detection      *)
(* reports: a subdirectory without a prompt file is never offered.          *)
C7_ChoicesAreQualifying ==
    (~TopLevelPrompts /\ Qualifying # {}) =>
        /\ (engine = "fs" /\ pc = "ask" /\ cont = "collection") =>
              /\ prompts[1].Name = varName
              /\ prompts[1].Choices = IsCollection(source)[2]
              /\ Range(prompts[1].Choices) = Qualifying
        /\ (engine = "dir" /\ choices # <<>>) =>
              /\ choices = IsCollection(source)[2]
              /\ Range(choices) = Qualifying

\* the entries the invocation wrote under the output target
Written ==
    {q \in DOMAIN target.files :
        ~(Has(before.files, q) /\ before.files[q] = target.files[q])}

\* the entry of the source a path of sub-template c names
SourceEntry(c, path) ==
    source[CHOOSE i \in 1..Len(source) : source[i].path = "/" \o c \o path]

HasSourceEntry(c, path) ==
    \E i \in 1..Len(source) : source[i].path = "/" \o c \o path

(* C8.  Collection narrowing: when a collection scaffold has succeeded with *)
(* a subdirectory C of the source chosen, every entry written derives from  *)
(* an entry under the source's C subdirectory, re-rooted so that C's        *)
(* entries sit at the top of the output; the prompts resolved are those of  *)
(* C's own prompt file; nothing of another subdirectory is in the output.   *)
C8_CollectionNarrowing ==
    (Done /\ result = "ok" /\ choice # "" /\ IsDir(source, choice)) =>
        /\ \A q \in Written :
              LET w == target.files[q] IN
              /\ HasSourceEntry(choice, w.src)
              /\ LET e == SourceEntry(choice, w.src)
                     t == transform(values, w.src).out
                 IN IF w.dir
                    THEN q = t \/ q \in Ancestors(t)
                    ELSE /\ q = t
                         /\ ~e.dir
                         /\ w.body \in {e.body, transform(values, e.body).out}
        /\ IF Stat(Chroot(source, choice), PromptFile)
           THEN prompts = readPromptFile(Chroot(source, choice), PromptFile).prompts
           ELSE values = EmptyMap
        /\ \A q \in Written : ~HasPrefix(q, "/" \o choice \o "/")

\* C8 witness: option2 was chosen and its own file, which option1 lacks,
\* is at the top of the output
C8_Witness ==
    /\ Done /\ result = "ok" /\ choice = "option2"
    /\ "/other.go" \in Written
    /\ target.files["/template.go"].body =
          transform(values, "second {{.test}}").out

\* the always-ignored names
AlwaysIgnored == {PromptFile, OverrideFile, ".git"}

\* the source holds prompts.toml, .override.toml, .git/ and template.go
IgnoreScenario ==
    Range(Names(ReadDir(source))) = AlwaysIgnored \cup {"template.go"}

(* C9.  Ignore list: after a successful materialization no entry of the     *)
(* output was made from a source entry that is an always-ignored name or    *)
(* lies beneath one; from a source holding prompts.toml, .override.toml,    *)
(* .git/ and template.go, only template.go is in the output.                *)
C9_IgnoreList ==
    (Done /\ result = "ok") =>
        /\ \A q \in Written : FirstSegment(target.files[q].src) \notin AlwaysIgnored
        /\ (IgnoreScenario /\ choice = "" /\ ~before.exists) =>
              /\ DOMAIN target.files = {"/template.go"}
              /\ target.files["/template.go"].body =
                    transform(values, "package {{.test}}").out

\* C9 witness: the source of the scenario has been materialized
C9_Witness ==
    /\ Done /\ result = "ok"
    /\ IgnoreScenario /\ choice = ""
    /\ DOMAIN target.files = {"/template.go"}

\* the tree the materialization was given: the source, narrowed to the
\* chosen sub-template when there is one
Materialized == IF choice = "" THEN source ELSE Chroot(source, choice)

(* C10.  Path substitution: after a successful materialization every entry  *)
(* written to the output sits at the path obtained by substituting the      *)
(* resolved bindings into the path of the source entry it was made from,    *)
(* and the written content of a text file is that entry's content with the  *)
(* same bindings substituted.                                               *)
C10_PathSubstitution ==
    (Done /\ result = "ok") =>
        \A q \in Written :
            LET w == target.files[q]
                t == transform(values, w.src).out
                e == Materialized[CHOOSE i \in 1..Len(Materialized) :
                                     Materialized[i].path = w.src]
            IN IF w.dir
               THEN q = t \/ q \in Ancestors(t)
               ELSE /\ q = t
                    /\ e.text => w.body = transform(values, e.body).out

\* the variable names a text refers to
RECURSIVE Refs(_)
Refs(data) ==
    LET open == Index(data, "{{.", 1)
        close == Index(data, "}}", open + 3)
    IN IF open = 0 \/ close = 0 THEN {}
       ELSE {SubSeq(data, open + 3, close - 1)}
                \cup Refs(SubSeq(data, close + 2, Len(data)))

\* the entry of the materialized tree an output entry was made from
MadeFrom(w) ==
    Materialized[CHOOSE i \in 1..Len(Materialized) : Materialized[i].path = w.src]

(* C11.  Substitution completeness: substituting a path or a text content   *)
(* that refers to a variable the final bindings do not have is an error;    *)
(* so no entry of a successful materialization was made from a path or a    *)
(* text content that refers to an unbound variable (an asker that failed    *)
(* apart: that is C3's matter).                                             *)
C11_SubstitutionCompleteness ==
    (Done /\ result = "ok" /\ ~AskerFailed) =>
        \A q \in Written :
            LET w == target.files[q] IN
            /\ Refs(w.src) \subseteq DOMAIN values
            /\ (~w.dir /\ MadeFrom(w).text) =>
                  Refs(MadeFrom(w).body) \subseteq DOMAIN values

\* substituting the bindings into the path or the text content of an entry
\* fails
SubstitutionFails(e) ==
    \/ transform(values, e.path).err
    \/ ~e.dir /\ e.text /\ transform(values, e.body).err

(* C12.  A substitution failure on any single entry aborts the whole        *)
(* materialization with an error: a materialization that returned success   *)
(* met no entry, outside the always-ignored names, whose path or content    *)
(* fails to substitute, and an invocation that met one wrote nothing for    *)
(* the entries after it.                                                    *)
C12_FailureAborts ==
    Done =>
        \A i \in 1..Len(Materialized) :
            (/\ FirstSegment(Materialized[i].path) \notin AlwaysIgnored
             /\ SubstitutionFails(Materialized[i])) =>
                /\ result = "err"
                /\ \A q \in Written :
                      \E j \in 1..i : Materialized[j].path = target.files[q].src

\* the invocation came in through Scaffold, which detects collections
ViaScaffold == Len(phases) >= 2 /\ phases[2] = "DetectingCollection"

(* C13.  A source with no top-level prompt file that is not a collection    *)
(* is materialized with an empty binding set: the asker is never invoked,   *)
(* the override file is not consulted, and, the output target being free,   *)
(* the scaffold succeeds and writes every file that is not an               *)
(* always-ignored name nor beneath one.                                     *)
C13_NoPromptFile ==
    (ViaScaffold /\ ~TopLevelPrompts /\ Qualifying = {}) =>
        /\ asked = <<>>
        /\ prompts = <<>> /\ overides = EmptyMap /\ Overrides = given.Overrides
        /\ pc = "apply" => values = EmptyMap
        /\ (Done /\ ~before.exists) =>
              /\ result = "ok"
              /\ \A i \in 1..Len(source) :
                    (~source[i].dir
                        /\ FirstSegment(source[i].path) \notin AlwaysIgnored) =>
                       /\ Has(target.files, source[i].path)
                       /\ target.files[source[i].path].src = source[i].path

(* C14.  Permission preservation: every file a successful materialization  *)
(* wrote has the permission bits of the source file it was made from with   *)
(* owner-read and owner-write set as well; an executable source file is     *)
(* executable in the output.                                                *)
C14_PermissionPreservation ==
    (Done /\ result = "ok") =>
        \A q \in Written :
            ~target.files[q].dir =>
                target.files[q].mode = Or0600(MadeFrom(target.files[q]).mode)

\* the selection prompt of a collection has been resolved
SelectionResolved ==
    /\ "SelectingOption" \in Range(phases)
    /\ pc \notin {"collection", "question"}
    /\ ~(pc = "ask" /\ cont = "collection")

\* the choices the selection prompt offered
Offered == IF engine = "dir" THEN detected[2] ELSE collectionChoices(source)

(* C15.  Collection selection validity: when the selection variable is      *)
(* unbound or bound to a value that is not one of the collection's choices  *)
(* after the selection prompt was resolved, the scaffold returns an error   *)
(* and materializes nothing (a re-rooting that itself fails apart: that is  *)
(* C16's matter).                                                           *)
C15_SelectionValidity ==
    (SelectionResolved /\ Done /\ choice \notin Range(Offered)
        /\ ~CrossesBoundary(choice)) =>
            /\ result = "err"
            /\ TargetUntouched

\* the place of a phase in the order of an invocation
PhaseRank(ph) ==
    CASE ph = "Fetching" -> 1
      [] ph = "DetectingCollection" -> 2
      [] ph = "SelectingOption" -> 3
      [] ph = "ResolvingPrompts" -> 4
      [] ph = "Materializing" -> 5

(* C16.  Phase ordering: an invocation enters Fetching, DetectingCollection, *)
(* SelectingOption (optional), ResolvingPrompts, Materializing in that       *)
(* order and enters none twice; it reports success only after Materializing, *)
(* so a failure of any phase, the re-rooting at the chosen subdirectory      *)
(* included, is returned as an error and never as a success with no output.  *)
C16_PhaseOrdering ==
    /\ \A i, j \in 1..Len(phases) :
          i < j => PhaseRank(phases[i]) < PhaseRank(phases[j])
    /\ (Done /\ result = "ok") =>
          /\ phases # <<>>
          /\ phases[Len(phases)] = "Materializing"

(* C17.  The template source is read-only to materialization: once Apply   *)
(* has run on the input tree, whether it succeeded or failed, every entry   *)
(* of that tree is still at its path with its content, binary and empty     *)
(* files included.                                                          *)
C17_SourceReadOnly ==
    "Materializing" \in Range(phases) => inFs = Materialized

(* C18.  An invocation leaves the caller's maps unchanged: when Scaffold    *)
(* or ScaffoldCollection has returned, the caller's override map and        *)
(* default/variable map hold exactly what they held when it was called.     *)
C18_CallerMapsUnchanged ==
    Done => /\ Overrides = given.Overrides
            /\ DefaultValues = given.DefaultValues

=============================================================================
